---- MODULE Spec2Model ----
(***************************************************************************)
(* Model of the active-workout session controller of IronPillarApp         *)
(* (src/src/screens/Workouts/ActiveWorkoutScreen.tsx).                     *)
(*                                                                         *)
(* The React component is modelled as a state machine over its committed   *)
(* state.  Synchronous handlers are single actions.  The three async       *)
(* handlers (initializeWorkoutSession, completeSet, finishWorkout) are     *)
(* split at their await: the first half issues the call and captures the   *)
(* values of the closure, the second half runs when the call settles, on   *)
(* the captured values, while functional state updates (setSets(prev =>    *)
(* ...)) act on the state of that moment.  A call to the backend settles   *)
(* in one of three ways: "ok", "error" (the promise resolves to a result   *)
(* that carries an error field, the way line 53/64 reads it) or "reject"   *)
(* (the promise rejects and the catch block runs).                         *)
(*                                                                         *)
(* Alert.alert is modelled by the title of the alert a step raises         *)
(* (last.alert).  The alerts with a single OK button change no state when  *)
(* dismissed, so they are not kept as state; the two alerts with a button  *)
(* that navigates are: "Workout Complete!" stays on screen (screen =       *)
(* "summary") until View Summary is pressed, and "Exit Workout" is         *)
(* answered within the exitWorkout step.                                   *)
(*                                                                         *)
(* Time is what new Date() reads, in milliseconds: startTime when the      *)
(* screen mounts, endTime when finishWorkout runs.  The update that        *)
(* finishWorkout sends is kept with the step that sent it (last.sent).     *)
(***************************************************************************)
EXTENDS Integers, Sequences, FiniteSets, TLC

\* ---------------------------------------------------------------------
\* JavaScript values
\* ---------------------------------------------------------------------
Null      == -1
Undefined == -2
NaN       == -3

\* JavaScript truthiness of a number | null | undefined
Falsy(v) == v \in {Null, Undefined, NaN, 0}

\* a || b
OrElse(a, b) == IF Falsy(a) THEN b ELSE a

\* a ?? b
Coalesce(a, b) == IF a \in {Null, Undefined} THEN b ELSE a

\* ---------------------------------------------------------------------
\* Program constants and bounds
\* ---------------------------------------------------------------------
DefaultRest   == 60
ExtendSeconds == 30

\* most calls to the store (record-set, finalize-session) in flight at a time
MaxInFlight   == 2
\* +30s is not pressed once the timer would exceed this
MaxRestTimer  == 90
\* the countdown is followed over its last MaxTicks seconds
MaxTicks      == 3

\* texts the user types into a numeric input
Texts == {"", "0", "5"}

\* parseFloat / parseInt of the texts above
parseNumber(text) ==
  CASE text = ""  -> NaN
    [] text = "0" -> 0
    [] text = "5" -> 5
    [] OTHER      -> NaN

\* the inputs the user types into (the RPE input is left empty)
Fields == {"weight_lbs", "reps"}

\* workout definitions handed to the screen (route.params.workout):
\* workout_exercises, each with exercise_id, sets, reps, rest_seconds
Exercise(id, n, r, rest) ==
  [exercise_id |-> id, sets |-> n, reps |-> r, rest_seconds |-> rest]

Workouts ==
  { << Exercise(1, 2, 10, 2) >>,
    << Exercise(1, 1, Null, Undefined), Exercise(2, 1, 10, 2) >>,
    << Exercise(1, 2, 10, 0), Exercise(2, 1, Null, 2) >> }

Outcomes == {"ok", "error", "reject"}

\* (1000 * 60): the milliseconds of a minute
MsPerMinute == 60000

\* what new Date() reads, in milliseconds: when the screen mounts, and when
\* finishWorkout runs (the wall clock may have been set back in between)
StartTimes == {100000}
EndTimes   == {70000, 100000, 129999, 130000, 159999, 190000}

VARIABLES
  workout,              \* route.params.workout.workout_exercises
  startTime,            \* useState(new Date()), as getTime() reads it
  screen,               \* "active", "summary" (Workout Complete! is up), "left"
  sessionId,            \* "" until the session row was created
  currentExerciseIndex, \* 0-based, as in the source
  sets,                 \* sequence of ActiveSet
  restTimer,
  isResting,
  showRestModal,
  initPc,               \* position of initializeWorkoutSession
  setCalls,             \* record-set calls in flight, in the order issued,
                        \* each with the values its closure captured
  finishCalls,          \* finalize-session calls in flight: their session ids
  recorded,             \* rows of workout_session_sets in the store (their keys)
  finalized,            \* session ids of the finalize-session calls that succeeded
  streak,               \* the ticks that ran since any other step, and
                        \* restTimer before the first of them
  last                  \* the step just taken

vars == << workout, startTime, screen, sessionId, currentExerciseIndex, sets, restTimer,
           isResting, showRestModal, initPc, setCalls, finishCalls,
           recorded, finalized, streak, last >>

\* ---------------------------------------------------------------------
\* Helpers
\* ---------------------------------------------------------------------
NumExercises == Len(workout)

\* workout.workout_exercises[i], 0-based
ExerciseAt(i) == workout[i + 1]

\* a sequence without its k-th element
Remove(q, k) == [ j \in 1..(Len(q) - 1) |-> IF j < k THEN q[j] ELSE q[j + 1] ]

\* sets[i], 0-based
SetAt(s, i) == s[i + 1]

\* the step taken: the handler, the set index it was called with (-1 when it
\* has none), how it went, the title of the alert it raised, and the update
\* of the session row it sent (NoUpdate when it sent none); for an
\* onChangeText, outcome is the field and text the text typed
NoUpdate == [completed_at |-> Null, duration_minutes |-> Null]
Step(op, i, o, a) ==
  [op |-> op, i |-> i, outcome |-> o, alert |-> a, sent |-> NoUpdate, text |-> ""]

\* the component is mounted: state updates take effect, the interval runs
mounted == screen # "left"

\* const allSetsCompleted = sets.every((set) => set.completed)
allSetsCompleted == \A k \in 1..Len(sets) : sets[k].completed

\* initializeSetsForExercise(exerciseIndex): the value passed to setSets
initializeSetsForExercise(exerciseIndex) ==
  LET exercise == ExerciseAt(exerciseIndex)
  IN  [ i \in 1..exercise.sets |->
          [ exercise_id  |-> exercise.exercise_id,
            set_number   |-> i,
            weight_lbs   |-> Null,
            reps         |-> Null,
            rpe          |-> Null,
            completed    |-> FALSE,
            target_reps  |-> Coalesce(exercise.reps, Undefined),
            rest_seconds |-> exercise.rest_seconds ] ]

\* faulty variant: the field is written into every set
updateSet_everySet(prev, setIndex, field, value) ==
  [ index \in 1..Len(prev) |-> [prev[index] EXCEPT ![field] = value] ]

\* updateSet(setIndex, field, value): the functional update of setSets
updateSet(prev, setIndex, field, value) ==
  [ index \in 1..Len(prev) |->
      IF index - 1 = setIndex
        THEN [prev[index] EXCEPT ![field] = value]
        ELSE prev[index] ]

\* calls to the store that have not settled
InFlight == Len(setCalls) + Len(finishCalls)

\* every step but a tick starts a new streak
NewStreak == streak' = [from |-> restTimer', n |-> 0]

\* faulty variant: the screen still takes touches after it was left
MainEnabled_afterLeft == ~showRestModal

\* the main screen takes touches: nothing modal is on top of it
MainEnabled == screen = "active" /\ ~showRestModal
\* the rest modal takes touches
ModalEnabled == screen = "active" /\ showRestModal

\* ---------------------------------------------------------------------
\* Initial state: the component has mounted and the mount effect has
\* called initializeWorkoutSession, which waits for auth.getUser()
\* ---------------------------------------------------------------------
\* faulty variant: the screen starts past the last exercise
initialExerciseIndex_pastEnd == Len(workout)

\* useState(0) of currentExerciseIndex
initialExerciseIndex == 0

Init ==
  /\ workout \in Workouts
  /\ startTime \in StartTimes
  /\ screen = "active"
  /\ sessionId = ""
  /\ currentExerciseIndex = initialExerciseIndex
  /\ sets = << >>
  /\ restTimer = 0
  /\ isResting = FALSE
  /\ showRestModal = FALSE
  /\ initPc = "getUser"
  /\ setCalls = << >>
  /\ finishCalls = << >>
  /\ recorded = {}
  /\ finalized = {}
  /\ streak = [from |-> 0, n |-> 0]
  /\ last = Step("mount", -1, "", "")

controllerState == << currentExerciseIndex, sets, restTimer, isResting, showRestModal >>
callState       == << setCalls, finishCalls, recorded, finalized >>

\* ---------------------------------------------------------------------
\* start: initializeWorkoutSession
\* ---------------------------------------------------------------------
\* await supabase.auth.getUser() settles
GetUserResolve ==
  /\ initPc = "getUser"
  /\ \E o \in {"user", "nouser", "reject"} :
       /\ initPc' = CASE o = "user"   -> "insert"
                      [] o = "nouser" -> "returned"   \* if (!user) return;
                      [] OTHER        -> "authFailed"
       /\ last' = Step("getUser", -1, o, IF o = "reject" THEN "Failed to start workout session" ELSE "")
  /\ UNCHANGED << workout, startTime, screen, sessionId, controllerState, callState >>
  /\ NewStreak

\* await supabase.from("workout_sessions").insert(...).select().single() settles
CreateSessionResolve ==
  /\ initPc = "insert"
  /\ \E o \in Outcomes :
       IF o = "ok"
         THEN /\ initPc' = "done"
              /\ last' = Step("createSession", -1, o, "")
              /\ IF mounted
                   THEN /\ sessionId' = "s1"
                        /\ sets' = initializeSetsForExercise(0)
                   ELSE UNCHANGED << sessionId, sets >>
         ELSE /\ initPc' = "failed"          \* if (error) throw error; catch
              /\ last' = Step("createSession", -1, o, "Failed to start workout session")
              /\ UNCHANGED << sessionId, sets >>
  /\ UNCHANGED << workout, startTime, screen, currentExerciseIndex, restTimer, isResting,
                  showRestModal, callState >>
  /\ NewStreak

\* ---------------------------------------------------------------------
\* updateSetField: the onChangeText handlers of the inputs
\* ---------------------------------------------------------------------
OnChangeText ==
  /\ MainEnabled
  /\ \E index \in 0..(Len(sets) - 1), field \in Fields, text \in Texts :
       /\ ~SetAt(sets, index).completed          \* editable={!set.completed}
       /\ sets' = updateSet(sets, index, field, OrElse(parseNumber(text), Null))
       /\ last' = [Step("updateSet", index, field, "") EXCEPT !.text = text]
  /\ UNCHANGED << workout, startTime, screen, sessionId, currentExerciseIndex, restTimer,
                  isResting, showRestModal, initPc, callState >>
  /\ NewStreak

\* ---------------------------------------------------------------------
\* completeSet
\* ---------------------------------------------------------------------
\* faulty variant: only the weight is tested
missingInput_weightOnly(set) == Falsy(set.weight_lbs)

\* if (!set.weight_lbs || !set.reps)
missingInput(set) == Falsy(set.weight_lbs) \/ Falsy(set.reps)

\* the row the insert into workout_session_sets adds, by its key
setRow(sid, set) ==
  [ session_id  |-> sid,
    exercise_id |-> set.exercise_id,
    set_number  |-> set.set_number ]

\* faulty variant: the call just issued overtakes the calls in flight
issueCall_first(calls, c) == << c >> \o calls

\* the insert is sent as completeSet reaches its await: the calls in flight,
\* the one just issued last
issueCall(calls, c) == Append(calls, c)

\* completeSet(setIndex) up to its await
CompleteSetPress ==
  /\ MainEnabled
  /\ \E index \in 0..(Len(sets) - 1) :
       LET set == SetAt(sets, index) IN
       /\ ~set.completed                          \* the button is rendered
       /\ IF missingInput(set)
            THEN /\ last' = Step("completeSet", index, "rejected", "Incomplete Set")
                 /\ UNCHANGED setCalls
            ELSE /\ InFlight < MaxInFlight
                 /\ setCalls' = issueCall(setCalls,
                        [ setIndex |-> index,
                          set |-> set,
                          setsLength |-> Len(sets),
                          currentExerciseIndex |-> currentExerciseIndex,
                          sessionId |-> sessionId ])
                 /\ last' = Step("completeSet", index, "issued", "")
  /\ UNCHANGED << workout, startTime, screen, sessionId, controllerState, initPc,
                  finishCalls, recorded, finalized >>
  /\ NewStreak

\* const restTime = set.rest_seconds || 60
restTime(set) == OrElse(set.rest_seconds, DefaultRest)

\* if (!isLastSet || !isLastExercise), on the values the closure captured
startsRest(c) ==
  LET isLastSet      == c.setIndex = c.setsLength - 1
      isLastExercise == c.currentExerciseIndex = NumExercises - 1
  IN  ~isLastSet \/ ~isLastExercise

\* faulty variant: the rest starts without its modal
startRest_noModal(c) ==
  /\ restTimer' = restTime(c.set)
  /\ isResting' = TRUE
  /\ UNCHANGED showRestModal

\* setRestTimer(restTime); setIsResting(true); setShowRestModal(true)
startRest(c) ==
  /\ restTimer' = restTime(c.set)
  /\ isResting' = TRUE
  /\ showRestModal' = TRUE

\* the call settled without throwing: lines 121-133
completeSetContinue(c) ==
  IF mounted
    THEN /\ sets' = updateSet(sets, c.setIndex, "completed", TRUE)
         /\ IF startsRest(c)
              THEN startRest(c)
              ELSE UNCHANGED << restTimer, isResting, showRestModal >>
    ELSE UNCHANGED << sets, restTimer, isResting, showRestModal >>

\* await supabase.from("workout_session_sets").insert(...) settles
RecordSetResolve ==
  \E k \in 1..Len(setCalls), o \in Outcomes :
    LET c == setCalls[k] IN
    /\ setCalls' = Remove(setCalls, k)
    /\ recorded' = IF o = "ok" THEN recorded \cup {setRow(c.sessionId, c.set)}
                               ELSE recorded
    /\ IF o = "reject"
         THEN /\ last' = Step("recordSet", c.setIndex, o, "Failed to save set")
              /\ UNCHANGED << sets, restTimer, isResting, showRestModal >>
         ELSE /\ last' = Step("recordSet", c.setIndex, o, "")
              /\ completeSetContinue(c)
    /\ UNCHANGED << workout, startTime, screen, sessionId, currentExerciseIndex, initPc,
                    finishCalls, finalized >>
    /\ NewStreak

\* ---------------------------------------------------------------------
\* advanceExercise and finish: nextExercise, finishWorkout
\* ---------------------------------------------------------------------
\* Math.round(num / den), den > 0: the nearest integer, a half rounds up
MathRound(num, den) == (2 * num + den) \div (2 * den)

\* faulty variant: whole minutes, rounded down
durationMinutes_floor(endTime) == (endTime - startTime) \div MsPerMinute

\* Math.round((endTime.getTime() - startTime.getTime()) / (1000 * 60))
durationMinutes(endTime) == MathRound(endTime - startTime, MsPerMinute)

\* the update finishWorkout sends (toISOString keeps the milliseconds, so
\* completed_at is written as the milliseconds it stands for)
sessionUpdate(endTime) ==
  [ completed_at     |-> endTime,
    duration_minutes |-> durationMinutes(endTime) ]

\* finishWorkout() up to its await, endTime being what new Date() read
finishWorkout(endTime) ==
  /\ InFlight < MaxInFlight
  /\ finishCalls' = Append(finishCalls, sessionId)
  /\ last' = [Step("nextExercise", -1, "finish", "")
                EXCEPT !.sent = sessionUpdate(endTime)]
  /\ UNCHANGED << currentExerciseIndex, sets >>

\* faulty variant: the index is not incremented
nextIndex_same(index) == index

\* const nextIndex = currentExerciseIndex + 1
nextIndex(index) == index + 1

\* nextExercise(), behind {allSetsCompleted && <button>}
NextExercisePress ==
  /\ MainEnabled
  /\ allSetsCompleted
  /\ IF currentExerciseIndex < NumExercises - 1
       THEN /\ currentExerciseIndex' = nextIndex(currentExerciseIndex)
            /\ sets' = initializeSetsForExercise(nextIndex(currentExerciseIndex))
            /\ last' = Step("nextExercise", -1, "advanced", "")
            /\ UNCHANGED finishCalls
       ELSE \E endTime \in EndTimes : finishWorkout(endTime)
  /\ UNCHANGED << workout, startTime, screen, sessionId, restTimer, isResting, showRestModal,
                  initPc, setCalls, recorded, finalized >>
  /\ NewStreak

\* await supabase.from("workout_sessions").update(...).eq("id", sessionId) settles
FinalizeResolve ==
  \E k \in 1..Len(finishCalls), o \in Outcomes :
    /\ finishCalls' = Remove(finishCalls, k)
    /\ finalized' = IF o = "ok" THEN finalized \cup {finishCalls[k]} ELSE finalized
    /\ IF o = "reject"
         THEN /\ last' = Step("finalize", -1, o, "Failed to save workout completion")
              /\ UNCHANGED screen
         ELSE /\ last' = Step("finalize", -1, o, "Workout Complete!")
              /\ screen' = IF screen = "active" THEN "summary" ELSE screen
    /\ UNCHANGED << workout, startTime, sessionId, controllerState, initPc, setCalls,
                    recorded >>
    /\ NewStreak

\* View Summary on the Workout Complete! alert: navigate("WorkoutsList")
ViewSummaryPress ==
  /\ screen = "summary"
  /\ screen' = "left"
  /\ last' = Step("viewSummary", -1, "", "")
  /\ UNCHANGED << workout, startTime, sessionId, controllerState, initPc, callState >>
  /\ NewStreak

\* ---------------------------------------------------------------------
\* abort: exitWorkout and the answer to its alert
\* ---------------------------------------------------------------------
ExitPress ==
  /\ MainEnabled
  /\ \E button \in {"Cancel", "Exit"} :
       /\ screen' = IF button = "Exit" THEN "left" ELSE screen
       /\ last' = Step("exitWorkout", -1, button, "Exit Workout")
  /\ UNCHANGED << workout, startTime, sessionId, controllerState, initPc, callState >>
  /\ NewStreak

\* ---------------------------------------------------------------------
\* rest timer: the interval of the effect, Skip Rest, +30s
\* ---------------------------------------------------------------------
\* faulty variant: the countdown skips a second
tickValue_by2(prev) == IF prev <= 2 THEN 0 ELSE prev - 2

\* the updater passed to setRestTimer by the interval callback
tickValue(prev) == IF prev <= 1 THEN 0 ELSE prev - 1

\* faulty variant: the rest ends one tick late
tickEnds_atZero(prev) == prev <= 0

\* the updater ends the rest: setIsResting(false); setShowRestModal(false)
tickEnds(prev) == prev <= 1

\* faulty variant: the interval is not cleared when the rest ends
intervalRuns_timerOnly == restTimer > 0

\* if (isResting && restTimer > 0): the effect has set the interval, and its
\* cleanup has cleared the one of the render before
intervalRuns == isResting /\ restTimer > 0

Tick ==
  /\ mounted
  /\ intervalRuns
  /\ restTimer <= MaxTicks
  /\ restTimer' = tickValue(restTimer)
  /\ isResting' = IF tickEnds(restTimer) THEN FALSE ELSE isResting
  /\ showRestModal' = IF tickEnds(restTimer) THEN FALSE ELSE showRestModal
  /\ streak' = [streak EXCEPT !.n = @ + 1]
  /\ last' = Step("tick", -1, "", "")
  /\ UNCHANGED << workout, startTime, screen, sessionId, currentExerciseIndex, sets,
                  initPc, callState >>

\* faulty variant: Skip Rest also clears the timer
skipRestTimer_zero(prev) == 0

\* what Skip Rest leaves in restTimer (it does not call setRestTimer)
skipRestTimer(prev) == prev

SkipRest ==
  /\ ModalEnabled
  /\ isResting' = FALSE
  /\ showRestModal' = FALSE
  /\ restTimer' = skipRestTimer(restTimer)
  /\ last' = Step("skipRest", -1, "", "")
  /\ UNCHANGED << workout, startTime, screen, sessionId, currentExerciseIndex, sets,
                  initPc, callState >>
  /\ NewStreak

\* faulty variant: +30s sets the timer to 30 seconds
extendValue_set(prev) == ExtendSeconds

\* (prev) => prev + 30
extendValue(prev) == prev + ExtendSeconds

\* setRestTimer((prev) => prev + 30)
AddTime ==
  /\ ModalEnabled
  /\ restTimer + ExtendSeconds <= MaxRestTimer
  /\ restTimer' = extendValue(restTimer)
  /\ last' = Step("addTime", -1, "", "")
  /\ UNCHANGED << workout, startTime, screen, sessionId, currentExerciseIndex, sets, isResting,
                  showRestModal, initPc, callState >>
  /\ NewStreak

\* ---------------------------------------------------------------------
\* Specification
\* ---------------------------------------------------------------------
Next ==
  \/ GetUserResolve
  \/ CreateSessionResolve
  \/ OnChangeText
  \/ CompleteSetPress
  \/ RecordSetResolve
  \/ NextExercisePress
  \/ FinalizeResolve
  \/ ViewSummaryPress
  \/ ExitPress
  \/ Tick
  \/ SkipRest
  \/ AddTime

Spec == Init /\ [][Next]_vars

\* the interval callback keeps firing while the interval exists
FairSpec == Spec /\ WF_vars(Tick)


\* ---------------------------------------------------------------------
\* Properties
\* ---------------------------------------------------------------------
\* a row of the store records this set entry
Recorded(set) ==
  \E r \in recorded : r.exercise_id = set.exercise_id /\ r.set_number = set.set_number

\* every prescribed set of the current exercise is in sets and completed
PrescribedSetsCompleted ==
  /\ Len(sets) = ExerciseAt(currentExerciseIndex).sets
  /\ allSetsCompleted

\* the session's final set has been completed
FinalSetDone ==
  /\ currentExerciseIndex = NumExercises - 1
  /\ PrescribedSetsCompleted

\* C1: when the record-set call of completeSet fails (it resolves to an error
\* result or it rejects) in a session that was started, the sets are left as
\* they were, with sets[i] not completed, no rest timer is started and an
\* error alert is raised.
C1_FailedRecordSetCommitsNothing ==
  [][ (last'.op = "recordSet" /\ last'.outcome # "ok" /\ initPc = "done")
        => /\ sets' = sets
           /\ restTimer' = restTimer
           /\ isResting' = isResting
           /\ last'.alert = "Failed to save set" ]_vars

\* C2: completeSet(i) on a set whose weight or reps is null is rejected:
\* sets, restTimer and isResting are unchanged and no record-set call is issued.
C2_NullInputRejected ==
  [][ (last'.op = "completeSet"
         /\ (SetAt(sets, last'.i).weight_lbs = Null \/ SetAt(sets, last'.i).reps = Null))
        => /\ last'.outcome = "rejected"
           /\ sets' = sets
           /\ restTimer' = restTimer
           /\ isResting' = isResting
           /\ setCalls' = setCalls ]_vars

\* C2 witness: a completeSet on a set with a null input has just been rejected
C2_Witness ==
  /\ last.op = "completeSet"
  /\ last.outcome = "rejected"
  /\ SetAt(sets, last.i).weight_lbs # Null
  /\ SetAt(sets, last.i).reps = Null

\* C3: once the create-session call has failed, sessionId stays unset,
\* currentExerciseIndex never advances and no record-set or finalize-session
\* call is issued.
C3_NoProgressWithoutSession ==
  [][ initPc = "failed"
        => /\ sessionId' = ""
           /\ currentExerciseIndex' = currentExerciseIndex
           /\ Len(setCalls') <= Len(setCalls)
           /\ Len(finishCalls') <= Len(finishCalls) ]_vars

\* C4: when the finalize-session call of a started session fails, no
\* completion summary is raised, an error alert is raised instead, and the
\* screen and the controller state are left as they were.
C4_FailedFinalizeNotFinished ==
  [][ (last'.op = "finalize" /\ last'.outcome # "ok" /\ initPc = "done")
        => /\ last'.alert = "Failed to save workout completion"
           /\ screen' = screen
           /\ controllerState' = controllerState ]_vars

prescribedRest(set) ==
  IF set.rest_seconds = Undefined THEN DefaultRest ELSE set.rest_seconds

\* C7: after a successful completeSet(i) that does not complete the session's
\* final set, isResting is true and restTimer is the set's rest_seconds, 60
\* only when rest_seconds is unspecified.
C7_RestStartsAfterSet ==
  [][ (last'.op = "recordSet" /\ last'.outcome = "ok" /\ mounted
         /\ last'.i < Len(sets) /\ ~SetAt(sets, last'.i).completed
         /\ ~FinalSetDone')
        => /\ isResting'
           /\ restTimer' = prescribedRest(SetAt(sets, last'.i)) ]_vars

\* C8: the successful completeSet that completes the session's final set, in
\* whatever order the sets were completed, starts no rest timer.
C8_NoRestAfterFinalSet ==
  [][ (last'.op = "recordSet" /\ last'.outcome = "ok" /\ mounted
         /\ ~isResting /\ ~FinalSetDone /\ FinalSetDone')
        => /\ isResting' = FALSE
           /\ restTimer' = restTimer ]_vars

\* after k ticks of a countdown from n that nothing interrupted
CountedDown ==
  last.op = "tick"
    => /\ streak.n \in 1..streak.from
       /\ restTimer = streak.from - streak.n
       /\ isResting <=> (streak.n < streak.from)

\* the countdown is within the seconds the model follows
InCountdown == mounted /\ isResting /\ restTimer <= MaxTicks

\* C9: in a countdown that starts at restTimer = n > 0 and is interrupted by
\* no other operation, after k ticks restTimer = n - k and isResting is still
\* true while k < n; after n ticks restTimer = 0 and isResting = false.  With
\* the tick fair, a countdown ends unless +30s takes it out of the seconds
\* followed or the screen is left.
C9_TicksCountDown ==
  /\ []CountedDown
  /\ InCountdown ~> (~isResting \/ ~mounted \/ restTimer > MaxTicks)

\* C9 witness: a countdown of n >= 2 has run its n ticks
C9_Witness ==
  /\ last.op = "tick"
  /\ streak.from >= 2
  /\ streak.n = streak.from
  /\ restTimer = 0 /\ ~isResting

\* C10: currentExerciseIndex increases, and finish is triggered, only in a
\* state where every prescribed set of the current exercise is completed.
C10_AdvanceOnlyWhenCompleted ==
  [][ (currentExerciseIndex' > currentExerciseIndex
         \/ Len(finishCalls') > Len(finishCalls))
        => PrescribedSetsCompleted ]_vars

\* the entries initializeSetsForExercise is to build for an exercise: one per
\* prescribed set, numbered 1..count, nothing entered, not completed, target
\* reps and rest seconds those of the prescription
FreshEntries(s, exerciseIndex) ==
  LET exercise == ExerciseAt(exerciseIndex) IN
  /\ Len(s) = exercise.sets
  /\ \A k \in 1..Len(s) :
       /\ s[k].exercise_id = exercise.exercise_id
       /\ s[k].set_number = k
       /\ s[k].weight_lbs = Null /\ s[k].reps = Null /\ s[k].rpe = Null
       /\ ~s[k].completed
       /\ s[k].target_reps = (IF exercise.reps = Null THEN Undefined ELSE exercise.reps)
       /\ s[k].rest_seconds = exercise.rest_seconds

\* C11: in every state of a started session, sets has as many entries as the
\* current exercise prescribes sets, and their set numbers are 1..count in
\* order.
C11_SetsMatchPrescription ==
  sessionId # ""
    => /\ Len(sets) = ExerciseAt(currentExerciseIndex).sets
       /\ \A k \in 1..Len(sets) : sets[k].set_number = k

\* C12: while the current exercise stays the same, an entry of sets that is
\* completed stays in sets and stays completed, whatever the step.
C12_CompletedNeverReverts ==
  [][ currentExerciseIndex' = currentExerciseIndex
        => \A k \in 1..Len(sets) :
             sets[k].completed => (k <= Len(sets') /\ sets'[k].completed) ]_vars

\* C13: when start succeeds, currentExerciseIndex is 0 and sets holds the
\* fresh entries of the first exercise.
C13_StartInitialisesFirstExercise ==
  [][ (last'.op = "createSession" /\ last'.outcome = "ok" /\ mounted)
        => /\ currentExerciseIndex' = 0
           /\ FreshEntries(sets', 0) ]_vars

\* C14: advanceExercise on an exercise that is not the last increments
\* currentExerciseIndex by one, replaces sets with the fresh entries of the new
\* exercise and issues no finalize-session call; on the last exercise it
\* leaves currentExerciseIndex and sets as they were and issues the
\* finalize-session call of finish.
C14_AdvanceOrFinish ==
  [][ last'.op = "nextExercise"
        => IF currentExerciseIndex < NumExercises - 1
             THEN /\ currentExerciseIndex' = currentExerciseIndex + 1
                  /\ FreshEntries(sets', currentExerciseIndex + 1)
                  /\ finishCalls' = finishCalls
                  /\ last'.sent = NoUpdate
             ELSE /\ currentExerciseIndex' = currentExerciseIndex
                  /\ sets' = sets
                  /\ Len(finishCalls') = Len(finishCalls) + 1
                  /\ finishCalls'[Len(finishCalls')] = sessionId ]_vars

\* C14 witness: in a started session, with the sets of the first exercise
\* recorded, advanceExercise has moved on to the second exercise
C14_Witness ==
  /\ last.op = "nextExercise" /\ last.outcome = "advanced"
  /\ sessionId # ""
  /\ recorded # {}
  /\ currentExerciseIndex = 1
  /\ FreshEntries(sets, 1)

\* C15: 0 <= currentExerciseIndex < number of exercises in every state, and
\* no step decreases currentExerciseIndex.
C15_IndexInRangeAndMonotone ==
  /\ [](currentExerciseIndex >= 0 /\ currentExerciseIndex < NumExercises)
  /\ [][currentExerciseIndex' >= currentExerciseIndex]_vars

\* C15 witness: the last exercise of a workout of two has been reached and
\* advanceExercise was invoked on it
C15_Witness ==
  /\ NumExercises = 2
  /\ currentExerciseIndex = NumExercises - 1
  /\ last.op = "nextExercise" /\ last.outcome = "finish"

\* |n|
Abs(n) == IF n < 0 THEN -n ELSE n

\* C16: the duration_minutes finish sends is an integer nearest to
\* (completed_at - startedAt) / 60000, with completed_at the timestamp finish
\* read.
C16_DurationRounded ==
  [][ (last'.op = "nextExercise" /\ last'.outcome = "finish")
        => LET update  == last'.sent
               elapsed == update.completed_at - startTime
           IN  /\ update.completed_at \in EndTimes
               /\ 2 * Abs(elapsed - MsPerMinute * update.duration_minutes)
                    <= MsPerMinute ]_vars

\* C16 witness: a started session finished 59999 ms after its start sends a
\* duration of one minute
C16_Witness ==
  /\ last.op = "nextExercise" /\ last.outcome = "finish"
  /\ sessionId # ""
  /\ last.sent.completed_at - startTime = MsPerMinute - 1
  /\ last.sent.duration_minutes = 1

C18_NoUserIsSurfaced ==
  [][ (last'.op = "getUser" /\ last'.outcome = "nouser")
        => last'.alert # "" ]_vars

\* C19: once a finalize-session call of the session has succeeded, no
\* record-set or finalize-session call is issued, the controller state no
\* longer changes and no second finalize-session call succeeds.
C19_FinishedIsTerminal ==
  [][ (sessionId # "" /\ sessionId \in finalized)
        => /\ Len(setCalls') <= Len(setCalls)
           /\ Len(finishCalls') <= Len(finishCalls)
           /\ controllerState' = controllerState
           /\ ~(last'.op = "finalize" /\ last'.outcome = "ok") ]_vars

\* C20: record-set calls are issued in the order completeSet is invoked: an
\* accepted completeSet(i) puts its call behind the calls in flight, and no
\* other step adds a call or reorders the calls in flight.
C20_CallsIssuedInOrder ==
  [][ \/ setCalls' = setCalls
      \/ \E k \in 1..Len(setCalls) : setCalls' = Remove(setCalls, k)
      \/ /\ last'.op = "completeSet" /\ last'.outcome = "issued"
         /\ Len(setCalls') = Len(setCalls) + 1
         /\ SubSeq(setCalls', 1, Len(setCalls)) = setCalls
         /\ setCalls'[Len(setCalls')].setIndex = last'.i
         /\ setCalls'[Len(setCalls')].set = SetAt(sets, last'.i) ]_vars

\* C20 witness: completeSet was invoked on the second set and then on the
\* first; the two calls are in flight in that order
C20_Witness ==
  /\ last.op = "completeSet" /\ last.outcome = "issued"
  /\ Len(setCalls) = 2
  /\ setCalls[1].setIndex = 1
  /\ setCalls[2].setIndex = 0

\* C21: of the record-set calls in flight for a started session no two are
\* for the same exercise and set number.
C21_OneCallPerSet ==
  \A j, k \in 1..Len(setCalls) :
    (j # k /\ setCalls[j].sessionId # "")
          => setRow(setCalls[j].sessionId, setCalls[j].set)
               # setRow(setCalls[k].sessionId, setCalls[k].set)

\* C22: in a session that was started before anything was pressed, every
\* entry of sets with completed = true has a weight and reps (the values its
\* record-set call was issued with).
C22_CompletedHasValues ==
  (sessionId # "" /\ \A r \in recorded : r.session_id # "")
    => \A k \in 1..Len(sets) :
         sets[k].completed => (sets[k].weight_lbs # Null /\ sets[k].reps # Null)

\* every prescribed set of every exercise of the workout has a row in the
\* store under the session id
AllSetsRecorded(sid) ==
  \A e \in 1..Len(workout) : \A n \in 1..workout[e].sets :
    [ session_id |-> sid, exercise_id |-> workout[e].exercise_id,
      set_number |-> n ] \in recorded

\* C23: a finalize-session call is issued only when the session has an id and
\* every prescribed set of every exercise has been recorded under it.
C23_FinalizeOnlyWhenAllRecorded ==
  [][ Len(finishCalls') > Len(finishCalls)
        => (sessionId # "" /\ AllSetsRecorded(sessionId)) ]_vars

\* C24: when a record-set call of a started session succeeds and its set is
\* marked completed, the weight, reps and rpe of the entry are those the call
\* was issued with.
C24_EntryEqualsValuesSent ==
  [][ (last'.op = "recordSet" /\ last'.outcome = "ok" /\ mounted
         /\ last'.i < Len(sets')
         /\ \A k \in 1..Len(setCalls) : setCalls[k].sessionId # "")
        => \E k \in 1..Len(setCalls) :
             /\ setCalls' = Remove(setCalls, k)
             /\ setCalls[k].setIndex = last'.i
             /\ SetAt(sets', last'.i).weight_lbs = setCalls[k].set.weight_lbs
             /\ SetAt(sets', last'.i).reps = setCalls[k].set.reps
             /\ SetAt(sets', last'.i).rpe = setCalls[k].set.rpe ]_vars

\* the other of the two inputs completeSet validates
otherField(field) == IF field = "weight_lbs" THEN "reps" ELSE "weight_lbs"

\* C25: completeSet(i) right after a number, 0 included, was typed into the
\* weight or the reps of set i, the other of the two being present, passes
\* validation and issues the record-set call.
C25_NumericInputAccepted ==
  [][ (last.op = "updateSet" /\ parseNumber(last.text) # NaN
         /\ last'.op = "completeSet" /\ last'.i = last.i
         /\ SetAt(sets, last.i)[otherField(last.outcome)] # Null)
        => last'.outcome = "issued" ]_vars

\* C26: updateSetField is not applied to a completed entry, and while the
\* current exercise stays the same a completed entry of sets keeps its
\* weight, reps and rpe.
C26_CompletedValuesFrozen ==
  [][ /\ last'.op = "updateSet" => ~SetAt(sets, last'.i).completed
      /\ currentExerciseIndex' = currentExerciseIndex
           => \A k \in 1..Len(sets) :
                sets[k].completed
                  => /\ k <= Len(sets')
                     /\ sets'[k].weight_lbs = sets[k].weight_lbs
                     /\ sets'[k].reps = sets[k].reps
                     /\ sets'[k].rpe = sets[k].rpe ]_vars

\* the fields of a set entry
EntryFields ==
  { "exercise_id", "set_number", "weight_lbs", "reps", "rpe", "completed",
    "target_reps", "rest_seconds" }

\* C27: updateSetField(i, field, value) changes the named field of set i
\* only: the other fields of set i, the other sets, currentExerciseIndex,
\* restTimer and isResting are unchanged and no call is issued.
C27_UpdateChangesOneField ==
  [][ last'.op = "updateSet"
        => /\ Len(sets') = Len(sets)
           /\ \A k \in 1..Len(sets) :
                \A f \in EntryFields :
                  (k # last'.i + 1 \/ f # last'.outcome) => sets'[k][f] = sets[k][f]
           /\ currentExerciseIndex' = currentExerciseIndex
           /\ restTimer' = restTimer
           /\ isResting' = isResting
           /\ callState' = callState ]_vars

\* C27 witness: 5 was typed into the weight of the first of two sets; the
\* second set has nothing entered
C27_Witness ==
  /\ last.op = "updateSet" /\ last.i = 0 /\ last.outcome = "weight_lbs"
  /\ last.text = "5"
  /\ Len(sets) = 2
  /\ sets[1].weight_lbs = 5 /\ sets[1].reps = Null
  /\ sets[2].weight_lbs = Null /\ sets[2].reps = Null

\* C28: while isResting is false no tick is taken, and restTimer changes only
\* when completeSet starts a rest.
C28_NoTickUnlessResting ==
  [][ ~isResting
        => /\ last'.op # "tick"
           /\ restTimer' # restTimer => (last'.op = "recordSet" /\ isResting') ]_vars

\* C28 witness: the rest was skipped with seconds remaining that the model
\* follows, and the user has gone on to type into a set
C28_Witness ==
  /\ mounted /\ ~isResting
  /\ restTimer > 0 /\ restTimer <= MaxTicks
  /\ last.op = "updateSet"

\* the ticks a countdown from n takes to end the rest, by the updater of the
\* interval callback
RECURSIVE ticksToEnd(_)
ticksToEnd(n) == IF tickEnds(n) THEN 1 ELSE 1 + ticksToEnd(tickValue(n))

\* C29: extendRest while resting adds exactly its seconds to restTimer,
\* leaves isResting true and the sets as they were, and the countdown takes
\* that many more ticks to end.
C29_ExtendAddsSeconds ==
  [][ last'.op = "addTime"
        => /\ isResting /\ isResting'
           /\ restTimer' = restTimer + ExtendSeconds
           /\ sets' = sets
           /\ ticksToEnd(restTimer') = ticksToEnd(restTimer) + ExtendSeconds ]_vars

\* C29 witness: a rest of 2 seconds was extended after its first tick
C29_Witness ==
  /\ last.op = "addTime"
  /\ isResting
  /\ restTimer = 1 + ExtendSeconds

\* C30: the rest modal is shown exactly when isResting is true.
C30_ModalIffResting == showRestModal <=> isResting

\* C30 witness: a completed set has started a rest and the modal is up
C30_Witness ==
  /\ last.op = "recordSet"
  /\ isResting /\ showRestModal
  /\ restTimer > 0

====
